---------------------------- MODULE Spec2Model ----------------------------
(***************************************************************************)
(* RiskRadarAI: the feature-engineering and risk-labelling engine.         *)
(*                                                                         *)
(*   src/src/feature_engineering.py        engineer_features (batch),      *)
(*                                         compute_risk_score,             *)
(*                                         classify_risk, assign_risk_zone *)
(*   src/backend/services/feature_builder.py   build_features (one day)    *)
(*   src/backend/app.py                    POST /predict-risk              *)
(*   src/src/train_model.py                the training script             *)
(*                                                                         *)
(* Numbers.  A Python float is modelled as a fixed-point decimal: the      *)
(* integer v stands for v / Scale.  Every product and quotient is rounded  *)
(* down to that grid.  The guard 1e-6 the code adds to denominators is     *)
(* Eps, the smallest positive value of the grid.  A missing value (NaN)    *)
(* is the integer NaN, which no computation produces otherwise; every      *)
(* arithmetic operator propagates it as numpy does.                        *)
(***************************************************************************)
EXTENDS Integers, Sequences, FiniteSets, TLC

Scale == 10 * 10 * 10

Eps == 1

NaN == 0 - 2000000000

IsNaN(x) == x = NaN

(* a float literal given as an integer number of units *)
F(x) == x * Scale

\* ---------------------------------------------------------------- floats

Add(a, b) == IF IsNaN(a) \/ IsNaN(b) THEN NaN ELSE a + b

Sub(a, b) == IF IsNaN(a) \/ IsNaN(b) THEN NaN ELSE a - b

Neg(a) == IF IsNaN(a) THEN NaN ELSE 0 - a

(* a * b on the grid; b is split so that no intermediate leaves 32 bits *)
Mul(a, b) ==
    IF IsNaN(a) \/ IsNaN(b) THEN NaN
    ELSE (b \div Scale) * a + ((b % Scale) * a) \div Scale

(* a / b on the grid; 0/0 is NaN as in numpy.  A non-zero numerator over a *)
(* zero denominator (numpy's inf) is outside the inputs drawn here and is  *)
(* given as NaN too.                                                       *)
Div(a, b) ==
    IF IsNaN(a) \/ IsNaN(b) \/ b = 0 THEN NaN
    ELSE IF b > 0 THEN (a * Scale) \div b
    ELSE ((0 - a) * Scale) \div (0 - b)

(* c * a for a literal c = num/den, e.g. 0.3 * a is Frac(3, 10, a) *)
Frac(num, den, a) == IF IsNaN(a) THEN NaN ELSE (num * a) \div den

Abs(a) == IF IsNaN(a) THEN NaN ELSE IF a < 0 THEN 0 - a ELSE a

RECURSIVE ISqrtBetween(_, _, _)
ISqrtBetween(n, lo, hi) ==
    IF lo >= hi THEN lo
    ELSE LET mid == (lo + hi + 1) \div 2
         IN IF mid * mid <= n THEN ISqrtBetween(n, mid, hi)
            ELSE ISqrtBetween(n, lo, mid - 1)

(* floor of the square root; 46340^2 is the largest square in 32 bits *)
ISqrt(n) == ISqrtBetween(n, 0, 46340)

RECURSIVE LnReduce(_, _)
(* y = m * 2^k with Scale <= m < 2*Scale *)
LnReduce(y, k) ==
    IF y >= 2 * Scale THEN LnReduce(y \div 2, k + 1)
    ELSE IF y < Scale THEN LnReduce(2 * y, k - 1)
    ELSE <<y, k>>

(* natural logarithm of y > 0: ln y = k ln 2 + 2 atanh((m-1)/(m+1)) *)
Ln(y) ==
    LET r  == LnReduce(y, 0)
        m  == r[1]
        t  == Div(m - Scale, m + Scale)
        t2 == Mul(t, t)
        t3 == Mul(t2, t)
        t5 == Mul(t3, t2)
        t7 == Mul(t5, t2)
    IN (r[2] * 693147) \div (1000000 \div Scale)
       + 2 * (t + t3 \div 3 + t5 \div 5 + t7 \div 7)

(* np.log1p *)
Log1p(x) ==
    IF IsNaN(x) \/ Scale + x <= 0 THEN NaN ELSE Ln(Scale + x)

RECURSIVE MulTimes(_, _, _)
MulTimes(v, c, k) == IF k = 0 THEN v ELSE MulTimes(Mul(v, c), c, k - 1)

(* np.exp(-d / 60) for a whole number of days d >= 0:                      *)
(* e^-(q + u) = e^-u * (e^-1)^q, with e^-u by its series for 0 <= u < 1    *)
ExpNegDays(d) ==
    LET q  == d \div 60
        u  == ((d % 60) * Scale) \div 60
        u2 == Mul(u, u)
        u3 == Mul(u2, u)
        u4 == Mul(u3, u)
        u5 == Mul(u4, u)
        u6 == Mul(u5, u)
        u7 == Mul(u6, u)
        eu == Scale - u + u2 \div 2 - u3 \div 6 + u4 \div 24 - u5 \div 120
              + u6 \div 720 - u7 \div 5040
    IN MulTimes(eu, (367879 * Scale) \div 1000000, q)


\* ----------------------------------------------------- pandas primitives

(* a lazily defined sequence, evaluated once *)
Force(s) == s \o <<>>

RECURSIVE SumRange(_, _, _)
SumRange(s, lo, hi) ==
    IF lo > hi THEN 0
    ELSE IF lo = hi THEN s[lo]
    ELSE LET mid == (lo + hi) \div 2
         IN SumRange(s, lo, mid) + SumRange(s, mid + 1, hi)

NotNaN(v) == ~IsNaN(v)

(* the values a reduction sees: pandas reductions skip NaN *)
Valid(xs) == SelectSeq(xs, NotNaN)

(* Series.mean() *)
SeqMean(xs) ==
    LET v == Valid(xs)
    IN IF Len(v) = 0 THEN NaN ELSE SumRange(v, 1, Len(v)) \div Len(v)

(* Series.std(), ddof = 1: NaN below two observations *)
SeqStd(xs) ==
    LET v  == Valid(xs)
        n  == Len(v)
        m  == SumRange(v, 1, n) \div n
        sq == [i \in 1..n |-> ((v[i] - m) * (v[i] - m)) \div (n - 1)]
    IN IF n < 2 THEN NaN ELSE ISqrt(SumRange(sq, 1, n))

(* Series.max() *)
SeqMax(xs) ==
    LET v == Valid(xs)
    IN IF Len(v) = 0 THEN NaN
       ELSE CHOOSE m \in {v[i] : i \in 1..Len(v)} :
                \A i \in 1..Len(v) : v[i] <= m

(* Series.min() *)
SeqMin(xs) ==
    LET v == Valid(xs)
    IN IF Len(v) = 0 THEN NaN
       ELSE CHOOSE m \in {v[i] : i \in 1..Len(v)} :
                \A i \in 1..Len(v) : m <= v[i]

(* df[name] *)
Col(df, name) == Force([p \in 1..Len(df) |-> df[p][name]])

(* df.groupby("athlete_id"): the keys, each key's row positions in row     *)
(* order, and for every row its key and its rank among the key's rows      *)
GroupBy(df) ==
    LET n    == Len(df)
        ids  == Force([p \in 1..n |-> df[p].athlete_id])
        idset == {ids[p] : p \in 1..n}
        keys == Force([k \in 1..Cardinality(idset) |->
                    CHOOSE a \in idset : Cardinality({b \in idset : b < a}) = k - 1])
        rows == Force([k \in 1..Len(keys) |->
                    SelectSeq([q \in 1..n |-> q], LAMBDA q : ids[q] = keys[k])])
        key  == Force([p \in 1..n |-> CHOOSE k \in 1..Len(keys) : keys[k] = ids[p]])
        rank == Force([p \in 1..n |->
                    Cardinality({q \in 1..p : ids[q] = ids[p]})])
    IN [keys |-> keys, rows |-> rows, key |-> key, rank |-> rank]

(* the row positions of the group row p belongs to *)
Members(g, p) == g.rows[g.key[p]]

(* the values of col in the trailing window of w rows of p's group *)
Window(g, col, p, w) ==
    LET k  == g.rank[p]
        lo == IF k - w + 1 < 1 THEN 1 ELSE k - w + 1
    IN [i \in 1..(k - lo + 1) |-> col[Members(g, p)[lo + i - 1]]]

(* groupby(...)[col].rolling(w, min_periods).mean(), aligned to the rows *)
RollingMean(g, col, w, min_periods) ==
    [p \in 1..Len(g.key) |->
        LET win == Window(g, col, p, w)
        IN IF Len(Valid(win)) < min_periods THEN NaN ELSE SeqMean(win)]

(* groupby(...)[col].rolling(w, min_periods).std(), aligned to the rows *)
RollingStd(g, col, w, min_periods) ==
    [p \in 1..Len(g.key) |->
        LET win == Window(g, col, p, w)
        IN IF Len(Valid(win)) < min_periods THEN NaN ELSE SeqStd(win)]

(* the values of col over the whole group of row p *)
GroupValues(g, col, p) ==
    [i \in 1..Len(Members(g, p)) |-> col[Members(g, p)[i]]]

(* x.mean() and x.std() of each group, kept at the group's first row *)
GroupMeanStd(g, col) ==
    Force([p \in 1..Len(col) |->
        IF g.rank[p] = 1
        THEN [mean |-> SeqMean(GroupValues(g, col, p)),
              std  |-> SeqStd(GroupValues(g, col, p))]
        ELSE [mean |-> NaN, std |-> NaN]])

(* grp.ffill() inside each group: the nearest earlier defined value *)
GroupFFill(g, col) ==
    Force([p \in 1..Len(col) |->
        IF NotNaN(col[p]) THEN col[p]
        ELSE LET before == Valid([i \in 1..(g.rank[p] - 1) |-> col[Members(g, p)[i]]])
             IN IF Len(before) = 0 THEN NaN ELSE before[Len(before)]])

(* grp.bfill() inside each group: the nearest later defined value *)
GroupBFill(g, col) ==
    Force([p \in 1..Len(col) |->
        IF NotNaN(col[p]) THEN col[p]
        ELSE LET m == Members(g, p)
                 k == g.rank[p]
                 after == Valid([i \in 1..(Len(m) - k) |-> col[m[k + i]]])
             IN IF Len(after) = 0 THEN NaN ELSE after[1]])

(* a - b, b * c ... element by element *)
ColSub(a, b) == Force([p \in 1..Len(a) |-> Sub(a[p], b[p])])

\* ------------------------------------------- src/feature_engineering.py

(* minmax(series): NaN-safe min-max normalisation *)
minmax(series) ==
    LET lo == SeqMin(series)
        hi == SeqMax(series)
    IN Force([p \in 1..Len(series) |->
           Div(Sub(series[p], lo), Add(Sub(hi, lo), Eps))])

RollingFeatures ==
    <<"load_7d", "load_14d", "hrv_7d_mean", "hrv_drop",
      "training_monotony", "training_strain",
      "training_monotony_log", "training_strain_log">>

(* engineer_features up to and including history_risk: the columns before  *)
(* the forward/backward fill                                               *)
engineer_unfilled(df) ==
    LET n   == Len(df)
        g   == GroupBy(df)
        hrv == Col(df, "hrv")
        daily_load_log == Force([p \in 1..n |-> Log1p(df[p].daily_load)])
        stats == GroupMeanStd(g, hrv)
        hrv_z == Force([p \in 1..n |->
                    Div(Sub(hrv[p], stats[Members(g, p)[1]].mean),
                        Add(stats[Members(g, p)[1]].std, Eps))])
        hrv_z_abs_max == SeqMax([p \in 1..n |-> Abs(hrv_z[p])])
        resting_hr_max == SeqMax(Col(df, "resting_hr"))
        recovery_score == Force([p \in 1..n |->
            Sub(Add(Frac(5, 10, df[p].sleep_quality),
                    Frac(3, 10, Div(hrv_z[p], Add(hrv_z_abs_max, Eps)))),
                Frac(2, 10, Div(df[p].resting_hr, Add(resting_hr_max, Eps))))])
        load_7d     == Force(RollingMean(g, daily_load_log, 7, 3))
        load_14d    == Force(RollingMean(g, daily_load_log, 14, 5))
        hrv_7d_mean == Force(RollingMean(g, hrv_z, 7, 3))
        hrv_drop    == ColSub(hrv_z, hrv_7d_mean)
        load_7d_std == Force(RollingStd(g, load_7d, 7, 3))
        training_monotony == Force([p \in 1..n |->
                                Div(load_7d[p], Add(load_7d_std[p], Eps))])
        training_strain == Force([p \in 1..n |->
                                Mul(load_7d[p], training_monotony[p])])
    IN [p \in 1..n |->
          df[p] @@
          [daily_load_log |-> daily_load_log[p],
           hrv_z |-> hrv_z[p],
           recovery_score |-> recovery_score[p],
           load_7d |-> load_7d[p],
           load_14d |-> load_14d[p],
           hrv_7d_mean |-> hrv_7d_mean[p],
           hrv_drop |-> hrv_drop[p],
           training_monotony |-> training_monotony[p],
           training_strain |-> training_strain[p],
           training_monotony_log |-> Log1p(training_monotony[p]),
           training_strain_log |-> Log1p(training_strain[p]),
           history_risk |-> Mul(F(df[p].past_injury),
                                ExpNegDays(df[p].days_since_injury))]]

(* lines 113-117, had the fill been applied to the frame as a whole:       *)
(* df[rolling_features].ffill().bfill(), no groupby                        *)
fill_rolling_ungrouped(df) ==
    LET g == GroupBy([p \in 1..Len(df) |-> [athlete_id |-> 0]])
        filled == [c \in 1..Len(RollingFeatures) |->
                     GroupBFill(g, GroupFFill(g, Col(df, RollingFeatures[c])))]
        F1 == Force(filled)
    IN [p \in 1..Len(df) |->
          [f \in DOMAIN df[p] |->
              IF \E c \in 1..Len(RollingFeatures) : RollingFeatures[c] = f
              THEN F1[CHOOSE c \in 1..Len(RollingFeatures) :
                         RollingFeatures[c] = f][p]
              ELSE df[p][f]]]

(* df.groupby("athlete_id")[rolling_features]                              *)
(*   .apply(lambda grp: grp.ffill().bfill()): each column on its own,      *)
(* inside each athlete's rows                                              *)
fill_rolling(df) ==
    LET g == GroupBy(df)
        filled == [c \in 1..Len(RollingFeatures) |->
                     GroupBFill(g, GroupFFill(g, Col(df, RollingFeatures[c])))]
        F1 == Force(filled)
    IN [p \in 1..Len(df) |->
          [f \in DOMAIN df[p] |->
              IF \E c \in 1..Len(RollingFeatures) : RollingFeatures[c] = f
              THEN F1[CHOOSE c \in 1..Len(RollingFeatures) :
                          RollingFeatures[c] = f][p]
              ELSE df[p][f]]]

engineer_features(df) == fill_rolling(Force(engineer_unfilled(df)))


(* line 133, had the load entered without normalisation: df["load_7d"]     *)
compute_risk_score_raw_load(df) ==
    LET n == Len(df)
        load_risk     == Col(df, "load_7d")
        fatigue_risk  == minmax([p \in 1..n |-> Neg(df[p].hrv_drop)])
        monotony_risk == minmax(Col(df, "training_monotony_log"))
        recovery      == minmax(Col(df, "recovery_score"))
    IN [p \in 1..n |->
          df[p] @@
          [risk_score |->
              Add(Add(Add(Add(Frac(25, 100, load_risk[p]),
                              Frac(25, 100, fatigue_risk[p])),
                          Frac(15, 100, monotony_risk[p])),
                      Frac(20, 100, Sub(Scale, recovery[p]))),
                  Frac(15, 100, df[p].history_risk))]]

(* compute_risk_score: the weighted combination; minmax over the whole     *)
(* frame scored together                                                   *)
compute_risk_score(df) ==
    LET n == Len(df)
        load_risk     == minmax(Col(df, "load_7d"))
        fatigue_risk  == minmax([p \in 1..n |-> Neg(df[p].hrv_drop)])
        monotony_risk == minmax(Col(df, "training_monotony_log"))
        recovery      == minmax(Col(df, "recovery_score"))
    IN [p \in 1..n |->
          df[p] @@
          [risk_score |->
              Add(Add(Add(Add(Frac(25, 100, load_risk[p]),
                              Frac(25, 100, fatigue_risk[p])),
                          Frac(15, 100, monotony_risk[p])),
                      Frac(20, 100, Sub(Scale, recovery[p]))),
                  Frac(15, 100, df[p].history_risk))]]

(* classify_risk(score) *)
classify_risk(score) ==
    IF IsNaN(score) THEN "Unknown"
    ELSE IF score < (4 * Scale) \div 10 THEN "Safe"
    ELSE IF score < (9 * Scale) \div 10 THEN "Moderate"
    ELSE "High"

(* assign_risk_zone: df["risk_score"].apply(classify_risk) *)
assign_risk_zone(df) ==
    [p \in 1..Len(df) |-> df[p] @@ [risk_zone |-> classify_risk(df[p].risk_score)]]

\* ---------------------------------- backend/services/feature_builder.py

MinHistory == 60

InsufficientHistory == "Athlete must have at least 60 days of history."

MODEL_FEATURES ==
    <<"load_7d", "hrv_drop", "training_monotony_log", "recovery_score",
      "history_risk">>

(* row i comes before row j under df.sort_values(["athlete_id", "date"]):  *)
(* a stable sort, ties keep their order                                    *)
SortsBefore(df, i, j) ==
    \/ df[i].athlete_id < df[j].athlete_id
    \/ /\ df[i].athlete_id = df[j].athlete_id
       /\ \/ df[i].date < df[j].date
          \/ df[i].date = df[j].date /\ i < j

sort_values(df) ==
    LET order == SortSeq([i \in 1..Len(df) |-> i],
                         LAMBDA i, j : SortsBefore(df, i, j))
    IN Force([k \in 1..Len(df) |-> df[order[k]]])

(* pd.concat([athlete_df, today_df], ignore_index=True): today's row is    *)
(* the last one and the index is renumbered 0..n                           *)
concat_today(athlete_df, today_data) ==
    [p \in 1..(Len(athlete_df) + 1) |->
        (IF p <= Len(athlete_df) THEN athlete_df[p] ELSE today_data)
        @@ [index |-> p - 1]]

(* the columns build_features computes on the sorted frame.  A column is  *)
(* a function of the row here: a row's value is worked out when it is read *)
build_columns(df) ==
    LET n   == Len(df)
        g   == GroupBy(df)
        hrv == Col(df, "hrv")
        stats == GroupMeanStd(g, hrv)
        hrv_z == Force([p \in 1..n |->
                    Div(Sub(hrv[p], stats[Members(g, p)[1]].mean),
                        stats[Members(g, p)[1]].std)])
        daily_load_log == [p \in 1..n |-> Log1p(df[p].daily_load)]
        load_7d     == RollingMean(g, daily_load_log, 7, 1)
        hrv_7d_mean == RollingMean(g, hrv_z, 7, 1)
        hrv_drop    == [p \in 1..n |-> Sub(hrv_z[p], hrv_7d_mean[p])]
        load_7d_std == RollingStd(g, daily_load_log, 7, 1)
        training_monotony == [p \in 1..n |->
                                Div(load_7d[p], Add(load_7d_std[p], Eps))]
        hrv_z_max      == SeqMax(hrv_z)
        resting_hr_max == SeqMax(Col(df, "resting_hr"))
    IN [p \in 1..n |->
          [index |-> df[p].index,
           load_7d |-> load_7d[p],
           hrv_drop |-> hrv_drop[p],
           training_monotony_log |-> Log1p(training_monotony[p]),
           recovery_score |->
               Sub(Add(Frac(5, 10, df[p].sleep_quality),
                       Frac(3, 10, Div(hrv_z[p], hrv_z_max))),
                   Frac(2, 10, Div(df[p].resting_hr, resting_hr_max))),
           history_risk |-> Mul(F(df[p].past_injury),
                                ExpNegDays(df[p].days_since_injury))]]

(* line 29, had it counted the frame after today's row was appended *)
insufficient_history_counting_today(athlete_df, today_data) ==
    Len(Append(athlete_df, today_data)) < MinHistory

(* if len(athlete_df) < 60: the stored rows of the athlete, today's row    *)
(* not among them                                                          *)
insufficient_history(athlete_df, today_data) ==
    Len(athlete_df) < MinHistory

(* build_features(today_data, history_path): either the ValueError or the  *)
(* one-row frame of the model features of df.iloc[-1], which keeps that    *)
(* row's index label                                                       *)
build_features(today_data, history_df) ==
    LET athlete_df == SelectSeq(history_df,
                          LAMBDA r : r.athlete_id = today_data.athlete_id)
    IN IF insufficient_history(athlete_df, today_data)
       THEN [raised |-> TRUE, message |-> InsufficientHistory]
       ELSE LET df == sort_values(concat_today(athlete_df, today_data))
            IN [raised |-> FALSE,
                features |-> build_columns(df)[Len(df)]]


\* ------------------------------------------------------------ the inputs

(* one athlete-day of telemetry: day d of athlete a, whose values repeat   *)
(* with period s + 1 (s = 0: every day alike)                              *)
Day(a, d, s) ==
    LET k == d % (s + 1)
    IN [athlete_id |-> a,
        date |-> d,
        daily_load |-> F(300 + 150 * k),
        resting_hr |-> F(55 + 2 * k),
        hrv |-> F(70 - 4 * k),
        sleep_quality |-> (7 * Scale) \div 10 - k * (Scale \div 10),
        past_injury |-> a % 2,
        days_since_injury |-> IF a % 2 = 1 THEN 30 + d ELSE 999]

(* n consecutive days of athlete a *)
Days(a, n, s) == [d \in 1..n |-> Day(a, d, s)]


\* ------------------------------------------- backend/services/predictor.py

RiskZones == {"Safe", "Moderate", "High", "Unknown"}

(* the probabilities the fitted forest may report for its best class *)
Confidences == {(k * Scale) \div 3 : k \in 2..3}

(* round(confidence, 2) *)
Round2(c) == ((c * 100 + Scale \div 2) \div Scale) * (Scale \div 100)

HasNaN(features) == \E i \in 1..Len(MODEL_FEATURES) : IsNaN(features[MODEL_FEATURES[i]])

(* predict(features_df): the pickled classifier is not part of the         *)
(* repository; it answers with one of the encoded labels and the winning   *)
(* probability, and scikit-learn may reject a frame holding NaN            *)
predict(features) ==
    {[raised |-> FALSE, label |-> l, confidence |-> c] :
        l \in RiskZones, c \in Confidences}
    \cup (IF HasNaN(features)
          THEN {[raised |-> TRUE, message |-> "Input X contains NaN."]}
          ELSE {})

\* --------------------------------------------------- src/train_model.py

(* df.sort_values("date").reset_index(drop=True).  The default sort is not *)
(* stable: rows of equal date come out in an order the code does not fix,  *)
(* here either their old order (keep = TRUE) or its reverse                *)
sort_by_date(df, keep) ==
    LET before(i, j) == \/ df[i].date < df[j].date
                        \/ /\ df[i].date = df[j].date
                           /\ IF keep THEN i < j ELSE i > j
        order == SortSeq([i \in 1..Len(df) |-> i], before)
    IN Force([k \in 1..Len(df) |-> df[order[k]]])

(* the keys of df.groupby("athlete_id"), ascending *)
group_keys(df) ==
    LET ids == {df[p].athlete_id : p \in 1..Len(df)}
    IN [k \in 1..Cardinality(ids) |->
          CHOOSE a \in ids : Cardinality({b \in ids : b < a}) = k - 1]

(* line 83, had the cut been taken from the test share:                    *)
(* len(g) - int(len(g) * 0.2)                                              *)
split_index_from_test_share(n) == n - (n * 2) \div 10

(* split_idx = int(len(g) * 0.8) *)
split_index(n) == (n * 8) \div 10

(* g of one loop iteration: the athlete's rows, sorted by date *)
group_frame(df, a) ==
    sort_by_date(SelectSeq(df, LAMBDA r : r.athlete_id = a), TRUE)

RECURSIVE concat_parts(_, _)
(* pd.concat(parts) of the first k parts *)
concat_parts(parts, k) ==
    IF k = 0 THEN <<>> ELSE concat_parts(parts, k - 1) \o parts[k]

(* lines 78-89: the per-athlete 80/20 split in time order *)
time_split(df) ==
    LET keys == group_keys(df)
        train_parts == [k \in 1..Len(keys) |->
            LET g == group_frame(df, keys[k])
            IN SubSeq(g, 1, split_index(Len(g)))]
        test_parts == [k \in 1..Len(keys) |->
            LET g == group_frame(df, keys[k])
            IN SubSeq(g, split_index(Len(g)) + 1, Len(g))]
    IN [train_df |-> concat_parts(train_parts, Len(keys)),
        test_df  |-> concat_parts(test_parts, Len(keys)),
        split_idx |-> split_index(Len(group_frame(df, keys[Len(keys)])))]

(* line 99: assert df.loc[:split_idx - 1, "date"].max()                    *)
(*                 <= df.loc[split_idx, "date"]                            *)
(* with split_idx left over from the last athlete of the loop; labels run  *)
(* from 0, an empty slice has no maximum and the comparison is then False  *)
sanity_check(df, k) ==
    /\ k >= 1
    /\ \A p \in 1..k : df[p].date <= df[k + 1].date


\* --------------------------------------------------- bounds of the inputs

(* stored days beyond the minimum history *)
ExtraDays == 1

(* the largest period of the day-to-day pattern is MaxShape + 1 *)
MaxShape == 2

(* how far today's values may depart from a usual day *)
MaxLevel == 1

(* rows of an athlete without enough history *)
ShortDays == 3

(* the longest series of the training set *)
MaxDays == 7

(* the day of athlete 1 whose HRV reading may be missing from the file *)
GapDay == 4

(* data/raw/athlete_history.csv: athlete 1, then athlete 2 *)
Histories ==
    {Days(1, n, s) \o Days(2, m, 1) :
        n \in (MinHistory - 1)..(MinHistory + ExtraDays),
        s \in 0..MaxShape,
        m \in {0, ShortDays}}

(* the body of a request: today's telemetry of athlete a, dated d *)
Today(a, d, k) ==
    [athlete_id |-> a,
     date |-> d,
     daily_load |-> F(300 + 900 * k),
     resting_hr |-> F(55 + 10 * k),
     hrv |-> F(70 - 20 * k),
     sleep_quality |-> (7 * Scale) \div 10 - k * ((4 * Scale) \div 10),
     past_injury |-> a % 2,
     days_since_injury |-> IF a % 2 = 1 THEN 30 + d ELSE 999]

Requests ==
    {Today(a, d, k) :
        a \in 1..2,
        d \in (MinHistory - 1)..(MinHistory + ExtraDays + 1),
        k \in 0..MaxLevel}

(* a file in which the HRV of athlete 1's day GapDay is an empty cell *)
WithGap(rows, missing) ==
    [p \in 1..Len(rows) |->
        IF missing /\ rows[p].date = GapDay
        THEN [rows[p] EXCEPT !.hrv = NaN] ELSE rows[p]]

(* data/raw/synthetic_athlete_dataset.csv: every athlete's days in date    *)
(* order, written athlete after athlete or day after day                   *)
Datasets ==
    {IF by_date THEN sort_by_date(rows, TRUE) ELSE rows :
        rows \in {WithGap(Days(1, n1, s1), missing) \o Days(2, n2, s2) :
                    n1 \in 1..MaxDays, n2 \in {0, 2, MaxDays},
                    s1 \in 0..MaxShape, s2 \in 0..MaxShape,
                    missing \in BOOLEAN},
        by_date \in BOOLEAN}

\* ------------------------------------------------------------- the state

VARIABLES
    history,      \* athlete_history.csv as read by build_features
    request,      \* <<data>>: the body of the last /predict-risk call
    features,     \* <<frame>>: what build_features returned for it
    response,     \* the HTTP answer to it
    dataset,      \* synthetic_athlete_dataset.csv
    pc,           \* where the training script stands
    df,           \* the script's frame
    train_df,
    test_df,
    split_idx     \* the loop variable the script reads again at line 99

vars == <<history, request, features, response, dataset, pc, df,
          train_df, test_df, split_idx>>

serving == <<history, request, features, response>>

training == <<dataset, pc, df, train_df, test_df, split_idx>>

NoResponse == [status_code |-> 0]

ServingIdle ==
    /\ history = <<>>
    /\ request = <<>>
    /\ features = <<>>
    /\ response = NoResponse

TrainingIdle ==
    /\ dataset = <<>>
    /\ pc = "idle"
    /\ df = <<>>
    /\ train_df = <<>>
    /\ test_df = <<>>
    /\ split_idx = 0

\* ------------------------------------------------------- backend/app.py

(* POST /predict-risk: the whole handler.  One exchange is followed at a   *)
(* time; the handler keeps nothing from one call to the next               *)
PredictRisk(data) ==
    LET built == build_features(data, history)
    IN /\ request = <<>>
       /\ request' = <<data>>
       /\ IF built.raised
          THEN /\ features' = <<>>
               /\ response' = [status_code |-> 500, detail |-> built.message]
          ELSE /\ features' = <<built.features>>
               /\ \E out \in predict(built.features) :
                     response' =
                        IF out.raised
                        THEN [status_code |-> 500, detail |-> out.message]
                        ELSE [status_code |-> 200,
                              athlete_id |-> data.athlete_id,
                              next_7_days_predicted_risk |-> out.label,
                              confidence |-> Round2(out.confidence),
                              status |-> "success"]
       /\ UNCHANGED <<history, training>>

(* the answer has been sent: the locals of the call are gone *)
Return ==
    /\ request # <<>>
    /\ request' = <<>>
    /\ features' = <<>>
    /\ response' = NoResponse
    /\ UNCHANGED <<history, training>>

ServeInit ==
    /\ history \in Histories
    /\ request = <<>>
    /\ features = <<>>
    /\ response = NoResponse
    /\ TrainingIdle

ServeNext ==
    \/ \E data \in Requests : PredictRisk(data)
    \/ Return

ServeSpec == ServeInit /\ [][ServeNext]_vars

\* --------------------------------------------------- src/train_model.py

(* df = pd.read_csv(DATA_PATH); the eight required columns are there *)
Load ==
    /\ pc = "start"
    /\ df' = dataset
    /\ pc' = "loaded"
    /\ UNCHANGED <<serving, dataset, train_df, test_df, split_idx>>

(* df = engineer_features(df) *)
Engineer ==
    /\ pc = "loaded"
    /\ df' = engineer_features(df)
    /\ pc' = "engineered"
    /\ UNCHANGED <<serving, dataset, train_df, test_df, split_idx>>

(* df = compute_risk_score(df) *)
Score ==
    /\ pc = "engineered"
    /\ df' = compute_risk_score(df)
    /\ pc' = "scored"
    /\ UNCHANGED <<serving, dataset, train_df, test_df, split_idx>>

(* df = assign_risk_zone(df) *)
Zone ==
    /\ pc = "scored"
    /\ df' = assign_risk_zone(df)
    /\ pc' = "zoned"
    /\ UNCHANGED <<serving, dataset, train_df, test_df, split_idx>>

(* df = df.sort_values("date").reset_index(drop=True) *)
SortByDate ==
    /\ pc = "zoned"
    /\ \E keep \in BOOLEAN : df' = sort_by_date(df, keep)
    /\ pc' = "sorted"
    /\ UNCHANGED <<serving, dataset, train_df, test_df, split_idx>>

(* the loop over df.groupby("athlete_id") and the two pd.concat *)
Split ==
    /\ pc = "sorted"
    /\ LET s == time_split(df)
       IN /\ train_df' = s.train_df
          /\ test_df' = s.test_df
          /\ split_idx' = s.split_idx
    /\ pc' = "split"
    /\ UNCHANGED <<serving, dataset, df>>

(* the "no leakage" assert *)
Sanity ==
    /\ pc = "split"
    /\ pc' = IF sanity_check(df, split_idx) THEN "checked" ELSE "AssertionError"
    /\ UNCHANGED <<serving, dataset, df, train_df, test_df, split_idx>>

(* label encoding, the two fits and joblib.dump: the collaborators *)
Fit ==
    /\ pc = "checked"
    /\ pc' = "done"
    /\ UNCHANGED <<serving, dataset, df, train_df, test_df, split_idx>>

(* the scores classify_risk is tried on: missing, below zero, and both     *)
(* sides of each threshold                                                 *)
Scores ==
    {NaN} \cup {(k * Scale) \div 1000 : k \in {-100, 0, 399, 400, 899, 900, 1200}}

MaxScoreRows == 2

(* frames that hold a risk_score column and nothing else *)
ScoreFrames ==
    UNION {[1..n -> {[risk_score |-> s] : s \in Scores}] : n \in 1..MaxScoreRows}

(* assign_risk_zone called on a frame of scores *)
ZoneInit ==
    /\ df \in ScoreFrames
    /\ pc = "scored"
    /\ dataset = <<>>
    /\ train_df = <<>>
    /\ test_df = <<>>
    /\ split_idx = 0
    /\ ServingIdle

ZoneNext == Zone

ZoneSpec == ZoneInit /\ [][ZoneNext]_vars

TrainInit ==
    /\ dataset \in Datasets
    /\ pc = "start"
    /\ df = <<>>
    /\ train_df = <<>>
    /\ test_df = <<>>
    /\ split_idx = 0
    /\ ServingIdle

TrainNext ==
    \/ Load
    \/ Engineer
    \/ Score
    \/ Zone
    \/ SortByDate
    \/ Split
    \/ Sanity
    \/ Fit

TrainSpec == TrainInit /\ [][TrainNext]_vars


\* ------------------------------------------------------------ properties

(* two computed values agree: both missing, or within a hundredth *)
Same(a, b) ==
    IF IsNaN(a) \/ IsNaN(b) THEN IsNaN(a) /\ IsNaN(b)
    ELSE Abs(Sub(a, b)) <= Scale \div 100

(* a request has been handled and its answer is on the wire *)
Answered == request # <<>>

(* the body of that request *)
Asked == request[1]

(* the stored records of athlete a *)
StoredFor(a) == SelectSeq(history, LAMBDA r : r.athlete_id = a)

(* today's date lies after every stored date of the athlete *)
LaterDay == \A p \in 1..Len(StoredFor(Asked.athlete_id)) :
                StoredFor(Asked.athlete_id)[p].date < Asked.date

(* the rows of frame d that belong to athlete a, in row order *)
RowsOf(d, a) == SelectSeq(d, LAMBDA r : r.athlete_id = a)

Athletes(d) == {d[p].athlete_id : p \in 1..Len(d)}

(* how often the record of (athlete, date) of r occurs in frame d *)
Occurrences(d, r) ==
    Cardinality({p \in 1..Len(d) :
                    d[p].athlete_id = r.athlete_id /\ d[p].date = r.date})

(* the features engineer_features computes *)
EngineeredFeatures ==
    <<"hrv_z", "load_7d", "load_14d", "hrv_drop", "training_monotony",
      "training_monotony_log", "training_strain", "training_strain_log",
      "recovery_score", "history_risk">>

Engineered == pc = "engineered"

HasScore == pc \in {"scored", "zoned", "sorted", "split", "checked",
                    "AssertionError", "done"}

HasZone == pc \in {"zoned", "sorted", "split", "checked",
                   "AssertionError", "done"}

HasSplit == pc \in {"split", "checked", "AssertionError", "done"}


(* C1: for an athlete with at least 60 stored records in date order and a  *)
(* new, later day, the five model features build_features returns equal    *)
(* those engineer_features computes for the same row from the same         *)
(* records (the stored ones followed by the new day).                      *)
C1_FeatureVectorEquivalence ==
    (Answered /\ features # <<>> /\ LaterDay) =>
        LET records == concat_today(StoredFor(Asked.athlete_id), Asked)
            batch   == engineer_features(records)
        IN \A i \in 1..Len(MODEL_FEATURES) :
              Same(features[1][MODEL_FEATURES[i]],
                   batch[Len(records)][MODEL_FEATURES[i]])


(* the zone the table of C2 gives a score *)
TableZone(score) ==
    IF IsNaN(score) \/ score = 0 - Scale \div 10 THEN "Unknown"
    ELSE IF score < (4 * Scale) \div 10 THEN "Safe"
    ELSE IF score < (9 * Scale) \div 10 THEN "Moderate"
    ELSE "High"

(* C2: assign_risk_zone gives every row the zone of the table: Unknown for *)
(* a missing score and for -0.1, Safe for 0.0 <= score < 0.4, Moderate for *)
(* 0.4 <= score < 0.9, High from 0.9 on.                                   *)
C2_ZoneTable ==
    pc = "zoned" =>
        \A p \in 1..Len(df) : df[p].risk_zone = TableZone(df[p].risk_score)


(* C3: per athlete with n records, the train slice holds floor(0.8 n) of   *)
(* them, train and test hold each record exactly once, every train date is *)
(* <= every test date, and the slices are those the athlete's records give *)
(* when split alone.                                                       *)
C3_TemporalPartition ==
    HasSplit =>
        \A a \in Athletes(df) :
            LET own   == RowsOf(df, a)
                n     == Len(own)
                train == RowsOf(train_df, a)
                test  == RowsOf(test_df, a)
                alone == time_split(own)
            IN /\ Len(train) = (4 * n) \div 5
               /\ Len(train) + Len(test) = n
               /\ \A p \in 1..n :
                     Occurrences(train_df, own[p]) + Occurrences(test_df, own[p]) = 1
               /\ \A i \in 1..Len(train) : \A j \in 1..Len(test) :
                     train[i].date <= test[j].date
               /\ train = alone.train_df
               /\ test = alone.test_df

(* two athletes are split, one of them with seven records: five go to      *)
(* train, two to test                                                      *)
C3_Witness ==
    /\ pc = "split"
    /\ Cardinality(Athletes(df)) = 2
    /\ \E a \in Athletes(df) :
          /\ Len(RowsOf(df, a)) = 7
          /\ Len(RowsOf(train_df, a)) = 5
          /\ Len(RowsOf(test_df, a)) = 2


(* C4: with fewer than 60 stored records of the athlete the call computes  *)
(* no features and the endpoint answers 500 with the message of the error  *)
(* and no prediction; with 60 or more stored records the call is accepted. *)
(* The new day is not counted.                                             *)
C4_InsufficientHistoryFailsFast ==
    Answered =>
        IF Len(StoredFor(Asked.athlete_id)) < 60
        THEN /\ features = <<>>
             /\ response.status_code = 500
             /\ response.detail = "Athlete must have at least 60 days of history."
             /\ "next_7_days_predicted_risk" \notin DOMAIN response
        ELSE features # <<>>

(* a request for an athlete with 59 stored records has been refused *)
C4_Witness ==
    /\ Answered
    /\ Len(StoredFor(Asked.athlete_id)) = 59
    /\ features = <<>>
    /\ response.status_code = 500


(* the frame without the records of athlete a dated after t *)
UpTo(d, a, t) == SelectSeq(d, LAMBDA r : r.athlete_id # a \/ r.date <= t)

(* the row of (a, t) in frame d *)
RowAt(d, a, t) == d[CHOOSE p \in 1..Len(d) : d[p].athlete_id = a /\ d[p].date = t]

(* C5: every feature of day t of an athlete is the same when the athlete's *)
(* records dated after t are absent from the input: it uses only records   *)
(* with date <= t.                                                         *)
C5_TemporalCausality ==
    Engineered =>
        \A p \in 1..Len(df) :
            LET a    == df[p].athlete_id
                t    == df[p].date
                past == engineer_features(UpTo(dataset, a, t))
            IN \A i \in 1..Len(EngineeredFeatures) :
                  Same(df[p][EngineeredFeatures[i]],
                       RowAt(past, a, t)[EngineeredFeatures[i]])


(* C6: every feature engineer_features computes for an athlete is the same *)
(* when the other athletes' records are removed from the batch.            *)
C6_PerAthleteIndependence ==
    Engineered =>
        \A a \in Athletes(df) :
            LET alone == engineer_features(RowsOf(dataset, a))
                own   == RowsOf(df, a)
            IN \A k \in 1..Len(own) : \A i \in 1..Len(EngineeredFeatures) :
                  Same(own[k][EngineeredFeatures[i]],
                       alone[k][EngineeredFeatures[i]])


(* C7: when today's date equals or precedes a stored date of the athlete,  *)
(* build_features surfaces an error: no feature vector, a failure answer.  *)
C7_OrderingViolationIsFatal ==
    (Answered /\ ~LaterDay) =>
        /\ features = <<>>
        /\ response.status_code = 500


(* C8: the vector an accepted call returns is the one of the appended row, *)
(* which concat gave the label len(athlete_df).                            *)
C8_ReturnsNewDay ==
    (Answered /\ features # <<>>) =>
        features[1].index = Len(StoredFor(Asked.athlete_id))


(* the positions of athlete a's rows in which column c is defined before   *)
(* the fill, among those dated before (TRUE) or after (FALSE) row p        *)
Donors(raw, p, c, before) ==
    {q \in 1..Len(raw) :
        /\ raw[q].athlete_id = raw[p].athlete_id
        /\ NotNaN(raw[q][c])
        /\ IF before THEN raw[q].date < raw[p].date
                     ELSE raw[q].date > raw[p].date}

(* the nearest of a set of donors: the latest of the earlier ones, the     *)
(* earliest of the later ones                                              *)
Nearest(raw, donors, before) ==
    CHOOSE q \in donors :
        \A r \in donors : IF before THEN raw[r].date <= raw[q].date
                                    ELSE raw[r].date >= raw[q].date

(* what the fill of C9 leaves in column c of row p *)
FilledValue(raw, p, c) ==
    IF NotNaN(raw[p][c]) THEN raw[p][c]
    ELSE IF Donors(raw, p, c, TRUE) # {}
         THEN raw[Nearest(raw, Donors(raw, p, c, TRUE), TRUE)][c]
    ELSE IF Donors(raw, p, c, FALSE) # {}
         THEN raw[Nearest(raw, Donors(raw, p, c, FALSE), FALSE)][c]
    ELSE NaN

(* C9: after engineer_features a rolling feature that was missing holds    *)
(* the value of the same column in the athlete's nearest earlier record    *)
(* where it is defined, else in the nearest later one; a column missing in *)
(* all of an athlete's records stays missing.                              *)
C9_FillWithinAthleteAndColumn ==
    Engineered =>
        LET raw == Force(engineer_unfilled(dataset))
        IN \A p \in 1..Len(df) : \A i \in 1..Len(RollingFeatures) :
              df[p][RollingFeatures[i]] = FilledValue(raw, p, RollingFeatures[i])

(* a gap of athlete 1 has been closed from an earlier day, a leading gap   *)
(* from a later day, and athlete 2, too short for any window, keeps        *)
(* load_7d missing in every row next to rows of athlete 1 that have it     *)
C9_Witness ==
    /\ Engineered
    /\ LET raw == Force(engineer_unfilled(dataset))
       IN /\ \E p \in 1..Len(df) :
                /\ IsNaN(raw[p].hrv_drop)
                /\ NotNaN(df[p].hrv_drop)
                /\ Donors(raw, p, "hrv_drop", TRUE) # {}
          /\ \E p \in 1..Len(df) :
                /\ IsNaN(raw[p].load_7d)
                /\ NotNaN(df[p].load_7d)
                /\ Donors(raw, p, "load_7d", TRUE) = {}
          /\ \E p \in 1..Len(df) : \E q \in 1..Len(df) :
                /\ df[p].athlete_id # df[q].athlete_id
                /\ IsNaN(df[p].load_7d)
                /\ NotNaN(df[q].load_7d)


(* C10: every defined risk_score lies in [0, 1]; a record with             *)
(* past_injury = 0 has risk_score <= 0.85 and is never given the zone High.*)
C10_HighNeedsPastInjury ==
    /\ HasScore =>
          \A p \in 1..Len(df) :
              NotNaN(df[p].risk_score) =>
                  /\ 0 <= df[p].risk_score
                  /\ df[p].risk_score <= Scale
                  /\ df[p].past_injury = 0 =>
                        df[p].risk_score <= (85 * Scale) \div 100
    /\ HasZone =>
          \A p \in 1..Len(df) :
              df[p].past_injury = 0 => df[p].risk_zone # "High"

(* a batch of two athletes has been scored and zoned; a record without     *)
(* past injury has a defined score and a zone, one with past injury too    *)
C10_Witness ==
    /\ pc = "zoned"
    /\ \E p \in 1..Len(df) :
          /\ df[p].past_injury = 0
          /\ NotNaN(df[p].risk_score)
          /\ df[p].risk_zone \in {"Safe", "Moderate"}
    /\ \E p \in 1..Len(df) :
          /\ df[p].past_injury = 1
          /\ NotNaN(df[p].risk_score)

====
